---------------------------- MODULE Spec2Model ----------------------------
(***************************************************************************)
(* Discount and promotion lifecycle of the DiscountServices backend        *)
(* (routers/discount.py, routers/promotion.py).                            *)
(*                                                                         *)
(* The SQL Server tables are the state.  A mutating handler (create,       *)
(* update, delete) runs its statements in one transaction (autocommit off, *)
(* commit at the end, rollback in the except clause), so its effect on the *)
(* tables is one step taken at the commit.  A read handler runs on an      *)
(* autocommit connection: the auto-expire sweep and every SELECT is a      *)
(* statement of its own, so one read request is followed step by step      *)
(* (variable reader) while other requests commit between its statements.   *)
(* The response of a finished request is held in reader / last until the   *)
(* Respond step hands it to the caller.                                    *)
(*                                                                         *)
(* Selection lists are modelled as sets of names (payload lists without    *)
(* repeated names, order not significant); NULL is 0 for a number and      *)
(* "NULL" for a string; dates are day numbers.                             *)
(***************************************************************************)
EXTENDS Integers, Sequences, FiniteSets, TLC

\* ------------------------------------------------------------------ bounds
\* Rows the two base tables hold together.
MaxRows == 2
\* Days the clock runs through (date.today() is 1..MaxDay).
MaxDay == 2
\* Rows the two base tables hold together under concurrent handling.
RaceRows == 1

\* ------------------------------------------------------------- value sets
Names == {"SALE10", "SALE20"}
ApplicationTypes == {"all_products", "specific_categories", "specific_products"}
Statuses == {"active", "inactive", "expired"}
Days == 1..MaxDay
\* Ids a request may name: the ids a table can hold and one that never exists.
RequestIds == 1..(MaxRows + 1)

\* The request bodies the model sends, less the name.  discountValue stands
\* for the pass-through columns (discount_type, discount_value, minimum_spend,
\* valid_from), which every handler copies and none reads.
DiscountShapes ==
    { [ applicationType |-> "all_products", selectedProducts |-> {"p1"},
        selectedCategories |-> {"c1"}, discountValue |-> 10,
        validTo |-> 1, status |-> "active" ],
      [ applicationType |-> "specific_products", selectedProducts |-> {"p1"},
        selectedCategories |-> {}, discountValue |-> 10,
        validTo |-> MaxDay, status |-> "active" ],
      [ applicationType |-> "specific_products", selectedProducts |-> {"p1", "p2", "p3"},
        selectedCategories |-> {}, discountValue |-> 10,
        validTo |-> MaxDay, status |-> "active" ],
      [ applicationType |-> "specific_categories", selectedProducts |-> {},
        selectedCategories |-> {"c1"}, discountValue |-> 10,
        validTo |-> 1, status |-> "inactive" ] }

\* class DiscountBase: the request bodies of POST and PUT /discounts.
DiscountBase ==
    { [discountName |-> n] @@ s : n \in Names, s \in DiscountShapes }

\* promotionValue, bogoDiscountType and bogoDiscountValue are Optional:
\* None is 0, "NULL", 0.  Every body is valid from the first day of the clock.
PromotionDefaults ==
    [ applicationType |-> "specific_products", selectedProducts |-> {},
      selectedCategories |-> {}, promotionType |-> "percentage",
      promotionValue |-> 0, bogoDiscountType |-> "NULL", bogoDiscountValue |-> 0,
      validFrom |-> 1, validTo |-> MaxDay, status |-> "active" ]

\* Bodies that pass the validation block.
PromotionShapesValid ==
    { [PromotionDefaults EXCEPT !.applicationType = "all_products",
          !.selectedProducts = {"p1"}, !.selectedCategories = {"c1"},
          !.promotionValue = 10, !.validTo = 1],
      [PromotionDefaults EXCEPT !.applicationType = "specific_categories",
          !.selectedCategories = {"c1"}, !.promotionType = "fixed",
          !.promotionValue = 10, !.status = "inactive"],
      [PromotionDefaults EXCEPT !.applicationType = "all_products",
          !.selectedProducts = {"p1", "p2"}, !.promotionType = "bogo",
          !.bogoDiscountType = "percentage", !.bogoDiscountValue = 5, !.validTo = 1],
      [PromotionDefaults EXCEPT !.selectedProducts = {"p1"}, !.promotionType = "bogo",
          !.bogoDiscountType = "percentage", !.bogoDiscountValue = 5],
      [PromotionDefaults EXCEPT !.applicationType = "all_products",
          !.promotionValue = 10] }

\* Bodies the validation block rejects, one for each of its raises.
PromotionShapesInvalid ==
    { [PromotionDefaults EXCEPT !.promotionType = "bogo",
          !.bogoDiscountType = "percentage", !.bogoDiscountValue = 5],
      [PromotionDefaults EXCEPT !.promotionType = "bogo",
          !.selectedProducts = {"p1", "p2", "p3"},
          !.bogoDiscountType = "percentage", !.bogoDiscountValue = 5],
      [PromotionDefaults EXCEPT !.promotionType = "bogo",
          !.selectedProducts = {"p1"}, !.bogoDiscountValue = 5],
      [PromotionDefaults EXCEPT !.promotionType = "bogo",
          !.selectedProducts = {"p1"}, !.bogoDiscountType = "percentage"],
      [PromotionDefaults EXCEPT !.selectedProducts = {"p1"}],
      [PromotionDefaults EXCEPT !.promotionValue = 10],
      [PromotionDefaults EXCEPT !.applicationType = "specific_categories",
          !.promotionValue = 10] }

\* class PromotionBase: the request bodies of POST and PUT /promotions.
PromotionBase ==
    { [promotionName |-> n] @@ s :
        n \in Names, s \in PromotionShapesValid \cup PromotionShapesInvalid }

\* ------------------------------------------------------------------- state
VARIABLES
    today,          \* date.today() of the server
    ddb,            \* tables discounts, discount_applicable_products, discount_applicable_categories
    pdb,            \* tables promotions, promotion_applicable_products, promotion_applicable_categories
    reader,         \* the request whose statements are followed one by one
    last            \* the response of the mutating request that has just finished

vars == <<today, ddb, pdb, reader, last>>

\* One family of tables: the base table (a row's position is its IDENTITY id)
\* and the two association tables, as sets of (entity id, name) rows.
EmptyTables == [rows |-> <<>>, products |-> {}, categories |-> {}]

NoRow == [id |-> 0]
NoBody == [id |-> 0]

\* SELECT * FROM <base> WHERE id=? AND isDeleted = 0, fetchone().
select_live(T, id) ==
    IF id \in 1..Len(T.rows) /\ T.rows[id].isDeleted = 0 THEN T.rows[id] ELSE NoRow

\* SELECT product_name FROM <products> WHERE <entity>_id=?, fetchall().
select_products(T, id) == { r.name : r \in { x \in T.products : x.id = id } }

\* SELECT category_name FROM <categories> WHERE <entity>_id=?, fetchall().
select_categories(T, id) == { r.name : r \in { x \in T.categories : x.id = id } }

\* Faulty variant: the product rows are never written.
insert_products_skipped(T, id, names) == T

\* INSERT INTO <products> (<entity>_id, product_name) VALUES (?, ?), once per name.
insert_products(T, id, names) ==
    [T EXCEPT !.products = @ \cup { [id |-> id, name |-> n] : n \in names }]

\* INSERT INTO <categories> (<entity>_id, category_name) VALUES (?, ?), once per name.
insert_categories(T, id, names) ==
    [T EXCEPT !.categories = @ \cup { [id |-> id, name |-> n] : n \in names }]

\* DELETE FROM <products> WHERE <entity>_id=?
delete_products(T, id) ==
    [T EXCEPT !.products = { x \in @ : x.id # id }]

\* DELETE FROM <categories> WHERE <entity>_id=?
delete_categories(T, id) ==
    [T EXCEPT !.categories = { x \in @ : x.id # id }]

\* The unique index on the name column (the schema is not part of the
\* routers): whether a non-deleted row other than `self` already holds `name`.
name_collides(T, name, self) ==
    \E i \in 1..Len(T.rows) :
        /\ i # self
        /\ T.rows[i].name = name
        /\ T.rows[i].isDeleted = 0

\* The exceptions a handler's try block sees, by what its except clause reads:
\* whether str(e).upper() contains "UNIQUE".
HTTP404 == [type |-> "HTTPException", status |-> 404, unique |-> FALSE]
UniqueViolation == [type |-> "IntegrityError", status |-> 0, unique |-> TRUE]
StatementError == [type |-> "Error", status |-> 0, unique |-> FALSE]

\* await conn.rollback(): the tables as they were before the transaction.
rollback(before, work) == before

\* Faulty variant: the except clause never answers 409.
except_write_no_conflict(e) == 500

\* except Exception as e of create and update: 409 when the text of e holds
\* "UNIQUE", otherwise 500.  HTTPException is an Exception, so the 404 the
\* try block raises itself is caught here too.
except_write(e) == IF e.unique THEN 409 ELSE 500

\* except Exception as e of get and delete: always 500.
except_plain(e) == 500

\* Faulty variant: the except clause of the sweep lets the failure out.
sweep_except_reraised(e) == [raised |-> TRUE, printed |-> ""]

\* except Exception as e: print(...) of auto_expire_discounts and
\* auto_expire_promotions.
sweep_except(e) == [raised |-> FALSE, printed |-> "Error auto-expiring"]

\* Faulty variant: the sweep takes rows whose validTo is today as well.
expire_matches_through_today(r, day) ==
    r.valid_to <= day /\ r.status # "expired" /\ r.isDeleted = 0

\* Faulty variant: the sweep expires active rows only (inactive ones stay).
expire_matches_active_only(r, day) ==
    r.valid_to < day /\ r.status = "active" /\ r.isDeleted = 0

\* Faulty variant: the sweep touches soft-deleted rows too.
expire_matches_deleted_too(r, day) ==
    r.valid_to < day /\ r.status # "expired"

\* status = 'expired' ... WHERE valid_to < ? AND status != 'expired' AND isDeleted = 0
expire_matches(r, day) ==
    r.valid_to < day /\ r.status # "expired" /\ r.isDeleted = 0


\* ------------------------------------------------------------ access guard
\* The callers, by what the identity service answers to their token on GET
\* /auth/users/me: a 200 response with the userRole (the four roles), a 200
\* response with no userRole ("norole"), an error status with a body
\* ("denied", a 401; "broken", a 500), no answer at all ("unreachable", an
\* httpx.RequestError).
Roles == {"admin", "manager", "cashier", "user"}
Identities == Roles \cup {"norole", "denied", "broken", "unreachable"}

\* client.get(AUTH_SERVICE_ME_URL, headers=headers): the response, or the
\* RequestError raised instead of one.
auth_me(who) ==
    CASE who = "unreachable" ->
           [ kind |-> "request_error", status_code |-> 0, text |-> "connect failed",
             userRole |-> "None" ]
      [] who = "denied" ->
           [ kind |-> "response", status_code |-> 401, text |-> "invalid token",
             userRole |-> "None" ]
      [] who = "broken" ->
           [ kind |-> "response", status_code |-> 500, text |-> "internal error",
             userRole |-> "None" ]
      [] who = "norole" ->
           [ kind |-> "response", status_code |-> 200, text |-> "{}",
             userRole |-> "None" ]
      [] OTHER ->
           [ kind |-> "response", status_code |-> 200, text |-> who, userRole |-> who ]

\* response.raise_for_status(): whether it raises HTTPStatusError.
raises_for_status(a) == a.status_code >= 400

\* Faulty variant: every authenticated caller is let through.
validate_token_any_role(who, allowed) ==
    LET a == auth_me(who)
    IN  IF a.kind = "request_error"
        THEN [status |-> 503, detail |-> <<"Authentication service is unavailable", a.text>>]
        ELSE IF raises_for_status(a)
        THEN [status |-> a.status_code, detail |-> <<"Authentication service error", a.text>>]
        ELSE [status |-> 0, detail |-> ""]

\* Faulty variant: a failure to reach the identity service is passed over.
validate_token_unreachable_passed(who, allowed) ==
    LET a == auth_me(who)
    IN  IF a.kind = "request_error"
        THEN [status |-> 0, detail |-> ""]
        ELSE IF raises_for_status(a)
        THEN [status |-> a.status_code, detail |-> <<"Authentication service error", a.text>>]
        ELSE IF a.userRole \notin allowed
        THEN [status |-> 403, detail |-> <<"Access denied", a.userRole>>]
        ELSE [status |-> 0, detail |-> ""]

\* Faulty variant: every error status of the identity service is answered
\* as a 401.
validate_token_error_as_401(who, allowed) ==
    LET a == auth_me(who)
    IN  IF a.kind = "request_error"
        THEN [status |-> 503, detail |-> <<"Authentication service is unavailable", a.text>>]
        ELSE IF raises_for_status(a)
        THEN [status |-> 401, detail |-> <<"Authentication service error", a.text>>]
        ELSE IF a.userRole \notin allowed
        THEN [status |-> 403, detail |-> <<"Access denied", a.userRole>>]
        ELSE [status |-> 0, detail |-> ""]

\* validate_token_and_roles(token, allowed_roles): the HTTPException it
\* raises (its status and, in detail, the message and the text it carries),
\* or status 0 when it returns the user data.
validate_token_and_roles(who, allowed) ==
    LET a == auth_me(who)
    IN  IF a.kind = "request_error"
        THEN [status |-> 503, detail |-> <<"Authentication service is unavailable", a.text>>]
        ELSE IF raises_for_status(a)
        THEN [status |-> a.status_code, detail |-> <<"Authentication service error", a.text>>]
        ELSE IF a.userRole \notin allowed
        THEN [status |-> 403, detail |-> <<"Access denied", a.userRole>>]
        ELSE [status |-> 0, detail |-> ""]

\* The allowed_roles each handler passes to the guard.
allowed_roles(op) ==
    IF op \in {"create", "update", "delete"} THEN {"admin"}
    ELSE IF op = "active" THEN {"user"}
    ELSE {"admin", "manager", "cashier"}

\* ----------------------------------------------------------- audit emitter
\* The answers of the ledger service to the emitter's POST.
LedgerAnswers == {"ok", "error_status", "timeout", "network_error"}

\* Faulty variant: the except clause lets the failure out.
emitter_except_reraised(e) == [raised |-> TRUE, printed |-> ""]

\* except Exception as e: print(...) of the emitter.
emitter_except(e) == [raised |-> FALSE, printed |-> "Blockchain logging failed"]

\* log_to_blockchain_async / log_to_blockchain_background: the POST and
\* raise_for_status() inside the try; whether an exception leaves the
\* emitter and what it prints.
log_to_blockchain(answer) ==
    IF answer = "ok" THEN [raised |-> FALSE, printed |-> ""]
    ELSE emitter_except(answer)

\* -------------------------------------------------------- catalog resolver
\* The lists the product catalog answers with: items carry ProductName and
\* ProductCategory, either of which may be missing or empty.
CatalogBodies ==
    { <<>>,
      << [ProductName |-> "p2", ProductCategory |-> "c1"],
         [ProductName |-> "p1", ProductCategory |-> "c1"],
         [ProductName |-> "", ProductCategory |-> "c2"],
         [ProductCategory |-> "c2"],
         [ProductName |-> "p3"] >> }

\* client.get(EXTERNAL_PRODUCTS_API_URL, headers=headers, timeout=10.0): the
\* response, or the RequestError (no connection, timeout) raised instead.
CatalogAnswers ==
    { [kind |-> "response", status_code |-> 200, text |-> "", data |-> d] :
        d \in CatalogBodies }
    \cup { [kind |-> "response", status_code |-> 404, text |-> "not found", data |-> <<>>],
           [kind |-> "response", status_code |-> 500, text |-> "catalog down", data |-> <<>>],
           [kind |-> "request_error", status_code |-> 0, text |-> "connect failed", data |-> <<>>],
           [kind |-> "request_error", status_code |-> 0, text |-> "timed out", data |-> <<>>] }

\* {item[key] for item in data if key in item and item[key]}
choices_of(data, key) ==
    { data[j][key] : j \in { i \in 1..Len(data) : key \in DOMAIN data[i] /\ data[i][key] # "" } }

\* Faulty variant: an error status of the catalog is answered like a network
\* failure.
get_external_choices_error_as_503(a) ==
    IF a.kind = "request_error" \/ raises_for_status(a)
    THEN [ status |-> 503,
           detail |-> <<"Network error communicating with Products service", 0, a.text>>,
           products |-> {}, categories |-> {} ]
    ELSE [ status |-> 0, detail |-> "",
           products |-> choices_of(a.data, "ProductName"),
           categories |-> choices_of(a.data, "ProductCategory") ]

\* get_external_choices(token): the two sets it returns (status 0), or the
\* HTTPException it raises, whose detail carries the message, the upstream
\* status and the upstream text.
get_external_choices(a) ==
    IF a.kind = "request_error"
    THEN [ status |-> 503,
           detail |-> <<"Network error communicating with Products service", 0, a.text>>,
           products |-> {}, categories |-> {} ]
    ELSE IF raises_for_status(a)
    THEN [ status |-> 502,
           detail |-> <<"Products service returned an error", a.status_code, a.text>>,
           products |-> {}, categories |-> {} ]
    ELSE [ status |-> 0, detail |-> "",
           products |-> choices_of(a.data, "ProductName"),
           categories |-> choices_of(a.data, "ProductCategory") ]

\* The order of sorted() on the names the catalog knows.
SortedNames == <<"c1", "c2", "p1", "p2", "p3">>

\* sorted(list(names))
sorted(names) == SelectSeq(SortedNames, LAMBDA n : n \in names)

\* GET /available-products and GET /available-categories past the guard:
\* the resolver's error, or the sorted names as a list of one-key dicts.
get_available_for_frontend(op, a) ==
    LET r == get_external_choices(a)
        names == sorted(IF op = "available-products" THEN r.products ELSE r.categories)
    IN  IF r.status # 0
        THEN [status |-> r.status, detail |-> r.detail, body |-> NoBody]
        ELSE [ status |-> 200, detail |-> "",
               body |-> [ id |-> 0,
                          items |-> [ j \in 1..Len(names) |->
                                       IF op = "available-products"
                                       THEN [ProductName |-> names[j]]
                                       ELSE [name |-> names[j]] ] ] ]

\* ------------------------------------------------------ discount handlers
\* What a handler hands back: the tables as it leaves them, the response
\* (status, detail, body), whether it called get_db_connection() and the
\* background tasks it has added to the response.

\* Faulty variant: the request is refused after the connection was opened.
rejected_after_connect(T, status, detail) ==
    [ T |-> T, status |-> status, detail |-> detail, body |-> NoBody,
      connected |-> TRUE, tasks |-> <<>> ]

\* An HTTPException raised before get_db_connection(): by the validation
\* block of a promotion handler or by validate_token_and_roles.
rejected(T, status, detail) ==
    [ T |-> T, status |-> status, detail |-> detail, body |-> NoBody,
      connected |-> FALSE, tasks |-> <<>> ]

\* A handler is a function of the tables and the request: the tables it
\* leaves (T), the HTTP status, what the error detail reports, the body.
\* `fault` makes the first association INSERT of the transaction raise.

\* raise HTTPException(status_code=...) out of the except clause.
detail_of(e) ==
    IF e.unique THEN "already exists"
    ELSE IF e.type = "HTTPException" THEN "Database error: 404: not found"
    ELSE "Database error: statement failed"

\* The INSERT INTO discounts ... OUTPUT INSERTED.id statement of create_discount.
discount_row(new_id, p) ==
    [ id |-> new_id, name |-> p.discountName, status |-> p.status,
      application_type |-> p.applicationType, discount_value |-> p.discountValue,
      valid_to |-> p.validTo, isDeleted |-> 0 ]

\* The association inserts of create_discount and update_discount: the list
\* the application type names, and no other.
discount_associations(T, id, p) ==
    IF p.applicationType = "specific_products"
    THEN insert_products(T, id, p.selectedProducts)
    ELSE IF p.applicationType = "specific_categories"
    THEN insert_categories(T, id, p.selectedCategories)
    ELSE T

\* DiscountDetailOut(id=..., **discount_data.model_dump()): the payload echoed.
echo(id, p) == [id |-> id] @@ p

\* POST /discounts/
create_discount(T, p, fault) ==
    LET new_id == Len(T.rows) + 1
        t1 == [T EXCEPT !.rows = Append(@, discount_row(new_id, p))]
        t2 == discount_associations(t1, new_id, p)
        e == IF name_collides(T, p.discountName, 0) THEN UniqueViolation
             ELSE StatementError
        work == IF e.unique THEN T ELSE t1
    IN  IF e.unique \/ (fault /\ t2 # t1)
        THEN [ T |-> rollback(T, work), status |-> except_write(e),
               detail |-> detail_of(e), body |-> NoBody,
               connected |-> TRUE, tasks |-> <<>> ]
        ELSE [ T |-> t2, status |-> 201, detail |-> "", body |-> echo(new_id, p),
               connected |-> TRUE, tasks |-> <<>> ]

\* Faulty variant: the UPDATE leaves application_type as it was.
discount_update_row_partial(old, p) ==
    [ old EXCEPT !.name = p.discountName, !.status = p.status,
                 !.discount_value = p.discountValue, !.valid_to = p.validTo ]

\* The UPDATE discounts SET ... WHERE id=? AND isDeleted = 0 statement.
discount_update_row(old, p) ==
    [ old EXCEPT !.name = p.discountName, !.status = p.status,
                 !.application_type = p.applicationType,
                 !.discount_value = p.discountValue, !.valid_to = p.validTo ]

\* Faulty variant: the old association rows are kept.
discount_clear_keep(T, id) == T

\* The two DELETE statements of update_discount, before the re-insert.
discount_clear(T, id) == delete_categories(delete_products(T, id), id)

\* PUT /discounts/{discount_id}
update_discount(T, id, p, fault) ==
    LET old == select_live(T, id)
        t1 == [T EXCEPT !.rows[id] = discount_update_row(old, p)]
        t2 == discount_clear(t1, id)
        t3 == discount_associations(t2, id, p)
        e == IF old.id = 0 THEN HTTP404
             ELSE IF name_collides(T, p.discountName, id) THEN UniqueViolation
             ELSE StatementError
        work == IF old.id = 0 \/ e.unique THEN T ELSE t2
    IN  IF old.id = 0 \/ e.unique \/ (fault /\ t3 # t2)
        THEN [ T |-> rollback(T, work), status |-> except_write(e),
               detail |-> detail_of(e), body |-> NoBody,
               connected |-> TRUE, tasks |-> <<>> ]
        ELSE [ T |-> t3, status |-> 200, detail |-> "", body |-> echo(id, p),
               connected |-> TRUE, tasks |-> <<>> ]

\* Faulty variant: the row is removed from the base table.
soft_delete_removes(T, id) ==
    [T EXCEPT !.rows = [i \in 1..(Len(T.rows) - 1) |->
                          IF i < id THEN T.rows[i] ELSE T.rows[i + 1]]]

\* Faulty variant: the soft delete also takes the row out of service.
soft_delete_deactivates(T, id) ==
    [T EXCEPT !.rows[id] = [@ EXCEPT !.isDeleted = 1, !.status = "inactive"]]

\* UPDATE <base> SET isDeleted = 1 ... WHERE id = ? AND isDeleted = 0
soft_delete(T, id) == [T EXCEPT !.rows[id] = [@ EXCEPT !.isDeleted = 1]]

\* DELETE /discounts/{discount_id}
delete_discount(T, id) ==
    LET old == select_live(T, id)
    IN  IF old.id = 0
        THEN [ T |-> rollback(T, T), status |-> except_plain(HTTP404),
               detail |-> detail_of(HTTP404), body |-> NoBody,
               connected |-> TRUE, tasks |-> <<>> ]
        ELSE [ T |-> soft_delete(T, id), status |-> 200, detail |-> "deleted successfully",
               body |-> NoBody,
               connected |-> TRUE, tasks |-> <<>> ]

\* auto_expire_discounts(conn): the bulk UPDATE and its commit.
auto_expire_discounts(T, day) ==
    [T EXCEPT !.rows = [i \in 1..Len(T.rows) |->
        IF expire_matches(T.rows[i], day)
        THEN [T.rows[i] EXCEPT !.status = "expired"] ELSE T.rows[i]]]

\* DiscountDetailOut(...) of get_discount, built from the three selects.
discount_detail(row, products, categories) ==
    [ id |-> row.id, discountName |-> row.name,
      applicationType |-> row.application_type,
      selectedProducts |-> products, selectedCategories |-> categories,
      discountValue |-> row.discount_value, validTo |-> row.valid_to,
      status |-> row.status ]


\* ----------------------------------------------------- promotion handlers
\* Faulty variant: the application type of a BOGO payload is left as sent.
force_application_type_kept(p) == p

\* promotion_data.applicationType = 'specific_products' for a BOGO payload.
force_application_type(p) ==
    IF p.promotionType = "bogo"
    THEN [p EXCEPT !.applicationType = "specific_products"] ELSE p

\* Faulty variant: the validation block without the maximum of 2 BOGO products.
validation_error_no_maximum(p) ==
    IF p.promotionType = "bogo"
    THEN IF p.selectedProducts = {}
         THEN "At least one product must be selected for BOGO"
         ELSE IF p.bogoDiscountType = "NULL" \/ p.bogoDiscountValue = 0
         THEN "BOGO discount type and value are required"
         ELSE ""
    ELSE IF p.promotionValue = 0
         THEN "Promotion value is required"
         ELSE IF p.applicationType = "specific_categories" /\ p.selectedCategories = {}
         THEN "At least one category must be selected"
         ELSE IF p.applicationType = "specific_products" /\ p.selectedProducts = {}
         THEN "At least one product must be selected"
         ELSE ""

\* Faulty variant: the validation block without the check of the category list.
validation_error_no_categories(p) ==
    IF p.promotionType = "bogo"
    THEN IF p.selectedProducts = {}
         THEN "At least one product must be selected for BOGO"
         ELSE IF Cardinality(p.selectedProducts) > 2
         THEN "BOGO promotions can have a maximum of 2 products"
         ELSE IF p.bogoDiscountType = "NULL" \/ p.bogoDiscountValue = 0
         THEN "BOGO discount type and value are required"
         ELSE ""
    ELSE IF p.promotionValue = 0
         THEN "Promotion value is required"
         ELSE IF p.applicationType = "specific_products" /\ p.selectedProducts = {}
         THEN "At least one product must be selected"
         ELSE ""

\* The validation block of create_promotion and update_promotion: the detail
\* of the HTTPException(400) it raises, or "" when the payload passes.
validation_error(p) ==
    IF p.promotionType = "bogo"
    THEN IF p.selectedProducts = {}
         THEN "At least one product must be selected for BOGO"
         ELSE IF Cardinality(p.selectedProducts) > 2
         THEN "BOGO promotions can have a maximum of 2 products"
         ELSE IF p.bogoDiscountType = "NULL" \/ p.bogoDiscountValue = 0
         THEN "BOGO discount type and value are required"
         ELSE ""
    ELSE IF p.promotionValue = 0
         THEN "Promotion value is required"
         ELSE IF p.applicationType = "specific_categories" /\ p.selectedCategories = {}
         THEN "At least one category must be selected"
         ELSE IF p.applicationType = "specific_products" /\ p.selectedProducts = {}
         THEN "At least one product must be selected"
         ELSE ""

\* The INSERT INTO promotions ... OUTPUT INSERTED.id statement.
promotion_row(new_id, p) ==
    [ id |-> new_id, name |-> p.promotionName,
      application_type |-> p.applicationType, promotion_type |-> p.promotionType,
      promotion_value |-> p.promotionValue,
      bogo_discount_type |-> p.bogoDiscountType,
      bogo_discount_value |-> p.bogoDiscountValue,
      valid_from |-> p.validFrom, valid_to |-> p.validTo,
      status |-> p.status, isDeleted |-> 0 ]

\* POST /promotions/
create_promotion(T, p0, fault) ==
    LET p == force_application_type(p0)
        new_id == Len(T.rows) + 1
        t1 == [T EXCEPT !.rows = Append(@, promotion_row(new_id, p))]
        t2 == insert_categories(insert_products(t1, new_id, p.selectedProducts),
                                new_id, p.selectedCategories)
        e == IF name_collides(T, p.promotionName, 0) THEN UniqueViolation
             ELSE StatementError
        work == IF e.unique THEN T ELSE t1
    IN  IF validation_error(p) # ""
        THEN rejected(T, 400, validation_error(p))
        ELSE IF e.unique \/ (fault /\ t2 # t1)
        THEN [ T |-> rollback(T, work), status |-> except_write(e),
               detail |-> detail_of(e), body |-> NoBody,
               connected |-> TRUE, tasks |-> <<>> ]
        ELSE [ T |-> t2, status |-> 201, detail |-> "", body |-> echo(new_id, p),
               connected |-> TRUE, tasks |-> <<>> ]

\* The UPDATE promotions SET ... WHERE id=? AND isDeleted = 0 statement.
promotion_update_row(old, p) ==
    [ old EXCEPT !.name = p.promotionName, !.application_type = p.applicationType,
                 !.promotion_type = p.promotionType,
                 !.promotion_value = p.promotionValue,
                 !.bogo_discount_type = p.bogoDiscountType,
                 !.bogo_discount_value = p.bogoDiscountValue,
                 !.valid_from = p.validFrom, !.valid_to = p.validTo,
                 !.status = p.status ]

\* "Delete and re-insert products", then the same for the categories.
promotion_replace(T, id, p) ==
    insert_categories(
        delete_categories(insert_products(delete_products(T, id), id, p.selectedProducts), id),
        id, p.selectedCategories)

\* PUT /promotions/{promotion_id}
update_promotion(T, id, p0, fault) ==
    LET p == force_application_type(p0)
        old == select_live(T, id)
        t1 == [T EXCEPT !.rows[id] = promotion_update_row(old, p)]
        t2 == delete_products(t1, id)
        t3 == promotion_replace(t1, id, p)
        inserts == p.selectedProducts \cup p.selectedCategories
        e == IF old.id = 0 THEN HTTP404
             ELSE IF name_collides(T, p.promotionName, id) THEN UniqueViolation
             ELSE StatementError
        work == IF old.id = 0 \/ e.unique THEN T
                ELSE IF p.selectedProducts # {} THEN t2 ELSE delete_categories(t2, id)
    IN  IF validation_error(p) # ""
        THEN rejected(T, 400, validation_error(p))
        ELSE IF old.id = 0 \/ e.unique \/ (fault /\ inserts # {})
        THEN [ T |-> rollback(T, work), status |-> except_write(e),
               detail |-> detail_of(e), body |-> NoBody,
               connected |-> TRUE, tasks |-> <<>> ]
        ELSE [ T |-> t3, status |-> 200, detail |-> "", body |-> echo(id, p),
               connected |-> TRUE, tasks |-> <<>> ]

\* DELETE /promotions/{promotion_id}
delete_promotion(T, id) ==
    LET old == select_live(T, id)
    IN  IF old.id = 0
        THEN [ T |-> rollback(T, T), status |-> except_plain(HTTP404),
               detail |-> detail_of(HTTP404), body |-> NoBody,
               connected |-> TRUE, tasks |-> <<>> ]
        ELSE [ T |-> soft_delete(T, id), status |-> 200, detail |-> "deleted successfully",
               body |-> NoBody,
               connected |-> TRUE, tasks |-> <<>> ]

\* auto_expire_promotions(conn): the bulk UPDATE and its commit.
auto_expire_promotions(T, day) ==
    [T EXCEPT !.rows = [i \in 1..Len(T.rows) |->
        IF expire_matches(T.rows[i], day)
        THEN [T.rows[i] EXCEPT !.status = "expired"] ELSE T.rows[i]]]

\* PromotionDetailOut(...) of get_promotion, built from the three selects.
promotion_detail(row, products, categories) ==
    [ id |-> row.id, promotionName |-> row.name,
      applicationType |-> row.application_type,
      selectedProducts |-> products, selectedCategories |-> categories,
      promotionType |-> row.promotion_type, promotionValue |-> row.promotion_value,
      bogoDiscountType |-> row.bogo_discount_type,
      bogoDiscountValue |-> row.bogo_discount_value,
      validFrom |-> row.valid_from, validTo |-> row.valid_to, status |-> row.status ]


\* ------------------------------------------------------------ read handlers
Kinds == {"discount", "promotion"}
Tab(k) == IF k = "discount" THEN ddb ELSE pdb

auto_expire(k, T, day) ==
    IF k = "discount" THEN auto_expire_discounts(T, day) ELSE auto_expire_promotions(T, day)

detail_out(k, row, products, categories) ==
    IF k = "discount" THEN discount_detail(row, products, categories)
    ELSE promotion_detail(row, products, categories)

\* The entity as a get would return it from tables T in one piece.
stored_entity(k, T, id) ==
    IF select_live(T, id).id = 0 THEN NoBody
    ELSE detail_out(k, select_live(T, id), select_products(T, id), select_categories(T, id))

\* GET /discounts/{id}, GET /promotions/{id} run with no other request
\* between its statements: the sweep, then the three selects.
get_entity(k, T, day, id) ==
    LET swept == auto_expire(k, T, day)
        row == select_live(swept, id)
    IN  IF row.id = 0
        THEN [ T |-> swept, status |-> except_plain(HTTP404),
               detail |-> detail_of(HTTP404), body |-> NoBody,
               connected |-> TRUE, tasks |-> <<>> ]
        ELSE [ T |-> swept, status |-> 200, detail |-> "",
               body |-> stored_entity(k, swept, id),
               connected |-> TRUE, tasks |-> <<>> ]

\* Faulty variant: the list SELECT without WHERE isDeleted = 0.
RECURSIVE live_ids_all(_, _)
live_ids_all(T, n) ==
    IF n = 0 THEN <<>> ELSE <<n>> \o live_ids_all(T, n - 1)

\* Faulty variant: the list SELECT ordered by id ascending.
RECURSIVE live_ids_asc(_, _)
live_ids_asc(T, n) ==
    IF n = 0 THEN <<>>
    ELSE IF T.rows[n].isDeleted = 0 THEN live_ids_asc(T, n - 1) \o <<n>>
    ELSE live_ids_asc(T, n - 1)

\* ... FROM <base> WHERE isDeleted = 0 ORDER BY id DESC: the ids, newest first.
RECURSIVE live_ids_desc(_, _)
live_ids_desc(T, n) ==
    IF n = 0 THEN <<>>
    ELSE IF T.rows[n].isDeleted = 0 THEN <<n>> \o live_ids_desc(T, n - 1)
    ELSE live_ids_desc(T, n - 1)

\* One DiscountListOut of get_all_discounts: the row and its aggregated
\* (SELECT DISTINCT ...) product and category names.
discount_list_item(T, id) ==
    [ id |-> id, name |-> T.rows[id].name, status |-> T.rows[id].status,
      validTo |-> T.rows[id].valid_to,
      application_type |-> T.rows[id].application_type,
      applicable_products |-> select_products(T, id),
      applicable_categories |-> select_categories(T, id) ]

\* One row of the main SELECT of get_all_promotions; products is the string
\* the handler shows: "All Products", the category names or the product names.
promotion_list_item(T, id) ==
    [ id |-> id, name |-> T.rows[id].name, status |-> T.rows[id].status,
      validTo |-> T.rows[id].valid_to,
      type |-> T.rows[id].promotion_type,
      application_type |-> T.rows[id].application_type,
      products |-> IF T.rows[id].application_type = "all_products" THEN {"All Products"}
                   ELSE IF T.rows[id].application_type = "specific_categories"
                   THEN select_categories(T, id)
                   ELSE select_products(T, id),
      bogoProducts |-> {} ]

list_items(k, T) ==
    LET ids == live_ids_desc(T, Len(T.rows))
    IN  [ j \in 1..Len(ids) |->
            IF k = "discount" THEN discount_list_item(T, ids[j])
            ELSE promotion_list_item(T, ids[j]) ]

\* Whether get_all_promotions runs the extra product SELECT for this row.
needs_bogo_select(item) ==
    /\ item.type = "bogo"
    /\ item.application_type \notin {"all_products", "specific_categories"}

\* The first row at or after position j that needs the extra SELECT, or 0.
RECURSIVE next_bogo(_, _)
next_bogo(items, j) ==
    IF j > Len(items) THEN 0
    ELSE IF needs_bogo_select(items[j]) THEN j
    ELSE next_bogo(items, j + 1)


\* get_active_promotions_public: ... WHERE status = 'active' AND isDeleted = 0
\* AND valid_from <= CAST(GETDATE() AS DATE) AND valid_to >= CAST(GETDATE() AS DATE)
active_matches(r, day) ==
    r.status = "active" /\ r.isDeleted = 0 /\ r.valid_from <= day /\ r.valid_to >= day

\* The ids that SELECT returns (it has no ORDER BY: in the order of the key).
RECURSIVE active_ids(_, _, _)
active_ids(T, n, day) ==
    IF n = 0 THEN <<>>
    ELSE IF active_matches(T.rows[n], day) THEN Append(active_ids(T, n - 1, day), n)
    ELSE active_ids(T, n - 1, day)

\* The rows of that SELECT, each as the PromotionDetailOut the loop builds
\* once its two selects have filled in the selections.
active_items(T, day) ==
    LET ids == active_ids(T, Len(T.rows), day)
    IN  [ j \in 1..Len(ids) |-> promotion_detail(T.rows[ids[j]], {}, {}) ]

\* ------------------------------------------------------------------ actions
Idle ==
    [ pc |-> "idle", op |-> "", k |-> "", id |-> 0, who |-> "", req |-> NoBody,
      row |-> NoRow,
      products |-> {}, categories |-> {}, seen |-> {}, items |-> <<>>, next |-> 0,
      status |-> 0, detail |-> "", body |-> NoBody, connected |-> FALSE,
      sweep |-> "" ]

NoResponse ==
    [ op |-> "", k |-> "", id |-> 0, who |-> "", req |-> NoBody,
      status |-> 0, detail |-> "", body |-> NoBody,
      connected |-> FALSE, tasks |-> <<>> ]

Init ==
    /\ today = 1
    /\ ddb = EmptyTables
    /\ pdb = EmptyTables
    /\ reader = Idle
    /\ last = NoResponse

\* No response is waiting to be handed to its caller.
Quiet == last = NoResponse /\ reader.pc # "done"

\* A mutating request may commit here: always under concurrent handling,
\* and otherwise only while no read request is between its statements.
MayCommit(concurrent) == Quiet /\ (concurrent \/ reader.pc = "idle")

\* Room for one more row.
HasRoom(concurrent) ==
    Len(ddb.rows) + Len(pdb.rows) < (IF concurrent THEN RaceRows ELSE MaxRows)

SetTab(k, T) ==
    /\ ddb' = IF k = "discount" THEN T ELSE ddb
    /\ pdb' = IF k = "promotion" THEN T ELSE pdb

\* The handler is through (refused by the guard, or its transaction
\* committed or rolled back) and its response is ready.  A request the guard
\* refuses is followed without its body, of which the guard reads nothing.  The response is followed to its caller when no read request is in
\* flight; a mutating request that runs during a read is followed only as
\* far as its commit.
Finish(op, k, id, who, req, r) ==
    /\ SetTab(k, r.T)
    /\ last' = IF reader.pc = "idle"
               THEN [ op |-> op, k |-> k, id |-> id, who |-> who,
                      req |-> req,
                      status |-> r.status, detail |-> r.detail, body |-> r.body,
                      connected |-> r.connected, tasks |-> r.tasks ]
               ELSE NoResponse
    /\ UNCHANGED <<today, reader>>

CreateDiscount(concurrent) ==
    /\ MayCommit(concurrent)
    /\ HasRoom(concurrent)
    /\ \E who \in Identities :
         LET g == validate_token_and_roles(who, allowed_roles("create"))
         IN  IF g.status # 0
             THEN Finish("create", "discount", 0, who, NoBody,
                         rejected(ddb, g.status, g.detail))
             ELSE \E p \in DiscountBase, fault \in BOOLEAN :
                    Finish("create", "discount", 0, who, p, create_discount(ddb, p, fault))

UpdateDiscount(concurrent) ==
    /\ MayCommit(concurrent)
    /\ \E who \in Identities, id \in RequestIds :
         LET g == validate_token_and_roles(who, allowed_roles("update"))
         IN  IF g.status # 0
             THEN Finish("update", "discount", id, who, NoBody,
                         rejected(ddb, g.status, g.detail))
             ELSE \E p \in DiscountBase, fault \in BOOLEAN :
                    Finish("update", "discount", id, who, p,
                           update_discount(ddb, id, p, fault))

DeleteDiscount(concurrent) ==
    /\ MayCommit(concurrent)
    /\ \E who \in Identities, id \in RequestIds :
         LET g == validate_token_and_roles(who, allowed_roles("delete"))
         IN  IF g.status # 0
             THEN Finish("delete", "discount", id, who, NoBody,
                         rejected(ddb, g.status, g.detail))
             ELSE Finish("delete", "discount", id, who, NoBody, delete_discount(ddb, id))

CreatePromotion(concurrent) ==
    /\ MayCommit(concurrent)
    /\ HasRoom(concurrent)
    /\ \E who \in Identities :
         LET g == validate_token_and_roles(who, allowed_roles("create"))
         IN  IF g.status # 0
             THEN Finish("create", "promotion", 0, who, NoBody,
                         rejected(pdb, g.status, g.detail))
             ELSE \E p \in PromotionBase, fault \in BOOLEAN :
                    Finish("create", "promotion", 0, who, p, create_promotion(pdb, p, fault))

UpdatePromotion(concurrent) ==
    /\ MayCommit(concurrent)
    /\ \E who \in Identities, id \in RequestIds :
         LET g == validate_token_and_roles(who, allowed_roles("update"))
         IN  IF g.status # 0
             THEN Finish("update", "promotion", id, who, NoBody,
                         rejected(pdb, g.status, g.detail))
             ELSE \E p \in PromotionBase, fault \in BOOLEAN :
                    Finish("update", "promotion", id, who, p,
                           update_promotion(pdb, id, p, fault))

DeletePromotion(concurrent) ==
    /\ MayCommit(concurrent)
    /\ \E who \in Identities, id \in RequestIds :
         LET g == validate_token_and_roles(who, allowed_roles("delete"))
         IN  IF g.status # 0
             THEN Finish("delete", "promotion", id, who, NoBody,
                         rejected(pdb, g.status, g.detail))
             ELSE Finish("delete", "promotion", id, who, NoBody, delete_promotion(pdb, id))

\* The caller receives the response of the mutating request.
Respond ==
    /\ last # NoResponse
    /\ last' = NoResponse
    /\ UNCHANGED <<today, ddb, pdb, reader>>

\* A read request (get, list or GET /promotions/active) arrives: the guard, and for a caller it lets
\* through the connection and the auto-expire sweep.
ReadSweep ==
    /\ Quiet
    /\ reader.pc = "idle"
    /\ \E who \in Identities, op \in {"get", "list", "active"}, k \in Kinds,
          id \in RequestIds :
         LET g == validate_token_and_roles(who, allowed_roles(op))
             arrived == [Idle EXCEPT !.op = op, !.k = k, !.who = who,
                                     !.id = IF op = "get" THEN id ELSE 0]
         IN  /\ op # "get" => id = 1
             /\ op = "active" => k = "promotion"
             /\ IF g.status # 0
                THEN /\ reader' = [arrived EXCEPT !.pc = "done", !.status = g.status,
                                                  !.detail = g.detail]
                     /\ UNCHANGED <<ddb, pdb>>
                ELSE /\ reader' = [arrived EXCEPT !.pc = "swept", !.connected = TRUE,
                                                  !.sweep = "done"]
                     /\ SetTab(k, auto_expire(k, Tab(k), today))
    /\ UNCHANGED <<today, last>>

\* The sweep of a read request that is not followed further.
OtherSweep ==
    /\ Quiet
    /\ \E k \in Kinds : SetTab(k, auto_expire(k, Tab(k), today))
    /\ UNCHANGED <<today, reader, last>>

\* get: SELECT * FROM <base> WHERE id=? AND isDeleted = 0; no row raises the
\* 404, which the handler's own except clause turns into a 500.
GetSelectBase ==
    /\ Quiet
    /\ reader.pc = "swept" /\ reader.op = "get"
    /\ LET row == select_live(Tab(reader.k), reader.id)
       IN  reader' =
             IF row.id = 0
             THEN [reader EXCEPT !.pc = "done", !.status = except_plain(HTTP404),
                                 !.detail = detail_of(HTTP404)]
             ELSE [reader EXCEPT !.pc = "base", !.row = row,
                     !.seen = {stored_entity(reader.k, Tab(reader.k), reader.id)}]
    /\ UNCHANGED <<today, ddb, pdb, last>>

GetSelectProducts ==
    /\ Quiet
    /\ reader.pc = "base"
    /\ reader' = [reader EXCEPT !.pc = "products",
                    !.products = select_products(Tab(reader.k), reader.id),
                    !.seen = @ \cup {stored_entity(reader.k, Tab(reader.k), reader.id)}]
    /\ UNCHANGED <<today, ddb, pdb, last>>

GetSelectCategories ==
    /\ Quiet
    /\ reader.pc = "products"
    /\ LET categories == select_categories(Tab(reader.k), reader.id)
       IN  reader' = [reader EXCEPT !.pc = "done", !.status = 200,
                        !.categories = categories,
                        !.seen = @ \cup {stored_entity(reader.k, Tab(reader.k), reader.id)},
                        !.body = detail_out(reader.k, reader.row, reader.products, categories)]
    /\ UNCHANGED <<today, ddb, pdb, last>>

\* list: the one SELECT ... WHERE isDeleted = 0 ORDER BY id DESC.
ListSelect ==
    /\ Quiet
    /\ reader.pc = "swept" /\ reader.op = "list"
    /\ LET items == list_items(reader.k, Tab(reader.k))
           j == IF reader.k = "promotion" THEN next_bogo(items, 1) ELSE 0
       IN  reader' = [reader EXCEPT !.pc = IF j = 0 THEN "done" ELSE "listed",
                        !.status = IF j = 0 THEN 200 ELSE 0,
                        !.items = items, !.next = j]
    /\ UNCHANGED <<today, ddb, pdb, last>>

\* get_all_promotions: the product SELECT it runs for the next BOGO row.
ListBogoProducts ==
    /\ Quiet
    /\ reader.pc = "listed"
    /\ LET j == reader.next
           items == [reader.items EXCEPT ![j].bogoProducts =
                        select_products(pdb, reader.items[j].id)]
           n == next_bogo(items, j + 1)
       IN  reader' = [reader EXCEPT !.pc = IF n = 0 THEN "done" ELSE "listed",
                        !.status = IF n = 0 THEN 200 ELSE 0,
                        !.items = items, !.next = n]
    /\ UNCHANGED <<today, ddb, pdb, last>>

\* get_active_promotions_public: its main SELECT.
ActiveSelect ==
    /\ Quiet
    /\ reader.pc = "swept" /\ reader.op = "active"
    /\ LET items == active_items(pdb, today)
       IN  reader' = [reader EXCEPT !.pc = IF items = <<>> THEN "done" ELSE "row",
                        !.status = IF items = <<>> THEN 200 ELSE 0,
                        !.items = items, !.next = IF items = <<>> THEN 0 ELSE 1]
    /\ UNCHANGED <<today, ddb, pdb, last>>

\* ... and for the next row of the loop the SELECT of its products,
ActiveSelectProducts ==
    /\ Quiet
    /\ reader.pc = "row"
    /\ reader' = [reader EXCEPT !.pc = "row_products",
                    !.items[reader.next].selectedProducts =
                        select_products(pdb, reader.items[reader.next].id)]
    /\ UNCHANGED <<today, ddb, pdb, last>>

\* ... and the SELECT of its categories, which ends the loop after the last row.
ActiveSelectCategories ==
    /\ Quiet
    /\ reader.pc = "row_products"
    /\ LET more == reader.next < Len(reader.items)
       IN  reader' = [reader EXCEPT !.pc = IF more THEN "row" ELSE "done",
                        !.status = IF more THEN 0 ELSE 200,
                        !.next = IF more THEN @ + 1 ELSE 0,
                        !.items[reader.next].selectedCategories =
                            select_categories(pdb, reader.items[reader.next].id)]
    /\ UNCHANGED <<today, ddb, pdb, last>>

\* The caller receives the response of the read request.
ReadRespond ==
    /\ reader.pc = "done"
    /\ reader' = Idle
    /\ UNCHANGED <<today, ddb, pdb, last>>

\* Midnight passes.
Tick ==
    /\ Quiet
    /\ today < MaxDay
    /\ today' = today + 1
    /\ UNCHANGED <<ddb, pdb, reader, last>>

\* The steps of the read request, the other requests' sweeps, the clock.
ReadStep ==
    \/ ReadSweep \/ OtherSweep
    \/ GetSelectBase \/ GetSelectProducts \/ GetSelectCategories
    \/ ListSelect \/ ListBogoProducts
    \/ ActiveSelect \/ ActiveSelectProducts \/ ActiveSelectCategories
    \/ ReadRespond
    \/ Respond
    \/ Tick

\* Requests handled one after another: a mutating request commits only
\* between read requests.
Next ==
    \/ CreateDiscount(FALSE) \/ UpdateDiscount(FALSE) \/ DeleteDiscount(FALSE)
    \/ CreatePromotion(FALSE) \/ UpdatePromotion(FALSE) \/ DeletePromotion(FALSE)
    \/ ReadStep

Spec == Init /\ [][Next]_vars

\* The audit emitter runs as a background task, after the response of the
\* request it belongs to has gone out.  What it leaves behind is followed in
\* `last`: status 0 when it returns, 500 when an exception leaves it.
Emit ==
    /\ Quiet
    /\ reader.pc = "idle"
    /\ \E k \in Kinds, answer \in LedgerAnswers :
         LET r == log_to_blockchain(answer)
         IN  last' = [NoResponse EXCEPT !.op = "emit", !.k = k,
                                       !.req = [id |-> 0, answer |-> answer],
                                       !.status = IF r.raised THEN 500 ELSE 0,
                                       !.detail = r.printed]
    /\ UNCHANGED <<today, ddb, pdb, reader>>

\* The handlers as above, and the emitter run on its own (no handler of the
\* repository schedules it).
NextEmit == Next \/ Emit

SpecEmit == Init /\ [][NextEmit]_vars

\* A read request arrives and its auto-expire sweep fails, in the UPDATE
\* (no row is changed) or in the commit that follows it on the autocommit
\* connection (the rows are expired already).  The sweep's except clause
\* decides whether the handler goes on to its select.
ReadSweepFails ==
    /\ Quiet
    /\ reader.pc = "idle"
    /\ \E who \in Identities, op \in {"get", "list", "active"}, k \in Kinds,
          id \in RequestIds, at \in {"execute", "commit"} :
         LET g == validate_token_and_roles(who, allowed_roles(op))
             arrived == [Idle EXCEPT !.op = op, !.k = k, !.who = who,
                                     !.id = IF op = "get" THEN id ELSE 0,
                                     !.connected = TRUE, !.sweep = "failed"]
             r == sweep_except(StatementError)
         IN  /\ op # "get" => id = 1
             /\ op = "active" => k = "promotion"
             /\ g.status = 0
             /\ reader' = IF r.raised
                          THEN [arrived EXCEPT !.pc = "done",
                                               !.status = except_plain(StatementError),
                                               !.detail = detail_of(StatementError)]
                          ELSE [arrived EXCEPT !.pc = "swept"]
             /\ SetTab(k, IF at = "commit" THEN auto_expire(k, Tab(k), today) ELSE Tab(k))
    /\ UNCHANGED <<today, last>>

\* The handlers as above, with reads whose sweep fails.
NextSweepFault == Next \/ ReadSweepFails

SpecSweepFault == Init /\ [][NextSweepFault]_vars

ChoiceOps == {"available-products", "available-categories"}

\* GET /available-products, GET /available-categories: the guard, then the
\* catalog call; the request opens no connection.
AvailableChoices ==
    /\ Quiet
    /\ reader.pc = "idle"
    /\ \E who \in Identities, op \in ChoiceOps :
         LET g == validate_token_and_roles(who, allowed_roles(op))
         IN  IF g.status # 0
             THEN last' = [NoResponse EXCEPT !.op = op, !.who = who,
                                            !.status = g.status, !.detail = g.detail]
             ELSE \E a \in CatalogAnswers :
                    LET r == get_available_for_frontend(op, a)
                    IN  last' = [NoResponse EXCEPT !.op = op, !.who = who,
                                                  !.req = [id |-> 0, answer |-> a],
                                                  !.status = r.status,
                                                  !.detail = r.detail,
                                                  !.body = r.body]
    /\ UNCHANGED <<today, ddb, pdb, reader>>

\* The handlers as above, and the two available-choices endpoints.
NextChoices == Next \/ AvailableChoices

SpecChoices == Init /\ [][NextChoices]_vars

\* An update followed statement by statement: the guard, for a promotion the
\* validation block, the connection and the SELECT of the old row.
UpdateSelect ==
    /\ Quiet
    /\ reader.pc = "idle"
    /\ \E who \in Identities, k \in Kinds, id \in RequestIds :
         LET g == validate_token_and_roles(who, allowed_roles("update"))
             arrived == [Idle EXCEPT !.op = "update", !.k = k, !.id = id, !.who = who]
         IN  IF g.status # 0
             THEN reader' = [arrived EXCEPT !.pc = "done", !.status = g.status,
                                           !.detail = g.detail]
             ELSE \E p \in (IF k = "discount" THEN DiscountBase ELSE PromotionBase) :
                    LET old == select_live(Tab(k), id)
                        bad == IF k = "discount" THEN ""
                               ELSE validation_error(force_application_type(p))
                    IN  reader' =
                          IF bad # ""
                          THEN [arrived EXCEPT !.pc = "done", !.req = p,
                                               !.status = 400, !.detail = bad]
                          ELSE IF old.id = 0
                          THEN [arrived EXCEPT !.pc = "done", !.req = p,
                                  !.connected = TRUE,
                                  !.status = except_write(HTTP404),
                                  !.detail = detail_of(HTTP404)]
                          ELSE [arrived EXCEPT !.pc = "selected", !.req = p,
                                  !.connected = TRUE, !.row = old]
    /\ UNCHANGED <<today, ddb, pdb, last>>

\* ... and the rest of its transaction: the UPDATE, which waits for the row
\* until no other transaction holds it and finds no row (rowcount 0) if the
\* row was deleted meanwhile, the DELETEs, the INSERTs and the commit.
UpdateCommit ==
    /\ Quiet
    /\ reader.pc = "selected"
    /\ \E fault \in BOOLEAN :
         LET T == Tab(reader.k)
             r == IF reader.k = "discount"
                  THEN update_discount(T, reader.id, reader.req, fault)
                  ELSE update_promotion(T, reader.id, reader.req, fault)
         IN  /\ reader' = [reader EXCEPT !.pc = "done", !.status = r.status,
                             !.detail = r.detail, !.body = r.body,
                             !.seen = {stored_entity(reader.k, T, reader.id)}]
             /\ SetTab(reader.k, r.T)
    /\ UNCHANGED <<today, last>>

\* Updates handled concurrently: while one update is between its SELECT and
\* its UPDATE, other mutating requests commit.
NextUpdates ==
    \/ CreateDiscount(TRUE) \/ UpdateDiscount(TRUE) \/ DeleteDiscount(TRUE)
    \/ CreatePromotion(TRUE) \/ UpdatePromotion(TRUE) \/ DeletePromotion(TRUE)
    \/ UpdateSelect \/ UpdateCommit \/ ReadRespond
    \/ Respond \/ OtherSweep \/ Tick

SpecUpdates == Init /\ [][NextUpdates]_vars

\* Requests handled concurrently: a mutating request may commit between any
\* two statements of the read request.
NextRace ==
    \/ CreateDiscount(TRUE) \/ UpdateDiscount(TRUE) \/ DeleteDiscount(TRUE)
    \/ CreatePromotion(TRUE) \/ UpdatePromotion(TRUE) \/ DeletePromotion(TRUE)
    \/ ReadStep

SpecRace == Init /\ [][NextRace]_vars


\* ------------------------------------------------------------------- claims
\* The caller of the request passed the guard.
Authorized(resp) == resp.who \in allowed_roles(resp.op)

Created == last.op = "create" /\ last.status = 201

\* The response of a create and a get of the created id, run at once, agree.
CreateThenGetAgree ==
    LET T == Tab(last.k)
        id == last.body.id
        got == get_entity(last.k, T, today, id)
    IN  /\ id \in 1..Len(T.rows)
        /\ T.rows[id].id = id
        /\ got.status = 200
        /\ got.body = last.body

\* validTo is not before today, or the status is expired already.
NotPastDue(b) == ~(b.validTo < today /\ b.status # "expired")

\* A discount body fills in only the selection list its application type names.
ListsFit(k, b) ==
    k = "discount" =>
        /\ b.applicationType # "specific_products" => b.selectedProducts = {}
        /\ b.applicationType # "specific_categories" => b.selectedCategories = {}

\* C1 as claimed: for every valid create payload the returned id is the id of
\* the stored row, and a get by that id right after the create returns the
\* field values of the create response, selections included.
C1_CreateThenGet_AsClaimed == Created => CreateThenGetAgree

\* C1 amended: the same, for a payload whose validTo is not before today (or
\* whose status is expired) and, for a discount, whose selection lists are
\* filled in only as its application type names.
C1_CreateThenGet ==
    (Created /\ NotPastDue(last.body) /\ ListsFit(last.k, last.body)) => CreateThenGetAgree

C1_Witness ==
    /\ Created /\ last.k = "discount"
    /\ NotPastDue(last.body) /\ ListsFit(last.k, last.body)
    /\ last.body.selectedProducts = {"p1", "p2", "p3"}
    /\ get_entity("discount", ddb, today, last.body.id).body = last.body

\* The request names an id with no row, or with a soft-deleted row.
Missing(k, id) == select_live(Tab(k), id).id = 0

\* C2 as claimed: a get or an update on an id that does not exist or is
\* soft-deleted yields 404, for discounts and promotions, and leaves the
\* base and association tables unchanged.
C2_MissingIs404_AsClaimed ==
    [][ /\ ( /\ last = NoResponse /\ last'.op = "update"
             /\ Authorized(last') /\ last'.status # 400
             /\ Missing(last'.k, last'.id) )
           => (last'.status = 404 /\ UNCHANGED <<ddb, pdb>>)
        /\ ( /\ reader.pc = "swept" /\ reader.op = "get" /\ reader'.pc = "done"
             /\ Missing(reader.k, reader.id) )
           => (reader'.status = 404 /\ UNCHANGED <<ddb, pdb>>)
      ]_vars

\* C3 as claimed: after an entity has been soft-deleted, a second delete on
\* the same id returns 404 and changes nothing in storage.
C3_SecondDeleteIs404_AsClaimed ==
    [][ ( /\ last = NoResponse /\ last'.op = "delete" /\ Authorized(last')
          /\ last'.id \in 1..Len(Tab(last'.k).rows)
          /\ Tab(last'.k).rows[last'.id].isDeleted = 1 )
        => (last'.status = 404 /\ UNCHANGED <<ddb, pdb>>)
      ]_vars

\* C4: a successful delete leaves the row in the base table with
\* isDeleted = 1, and no get or list that runs afterwards returns a
\* soft-deleted entity.
C4_DeletedIsHidden ==
    /\ (last.op = "delete" /\ last.status = 200) =>
          /\ last.id \in 1..Len(Tab(last.k).rows)
          /\ Tab(last.k).rows[last.id].id = last.id
          /\ Tab(last.k).rows[last.id].isDeleted = 1
    /\ (reader.pc = "done" /\ reader.op = "get" /\ reader.status = 200) =>
          /\ reader.body.id = reader.id
          /\ Tab(reader.k).rows[reader.id].isDeleted = 0
    /\ (reader.pc = "done" /\ reader.op = "list") =>
          \A j \in 1..Len(reader.items) :
              Tab(reader.k).rows[reader.items[j].id].isDeleted = 0

C4_Witness ==
    /\ reader.pc = "done" /\ reader.op = "list"
    /\ Len(reader.items) = 1
    /\ \E i \in 1..Len(Tab(reader.k).rows) : Tab(reader.k).rows[i].isDeleted = 1

\* A row the sweep is to expire: not deleted, validTo before today, not yet expired.
PastDue(r) == r.isDeleted = 0 /\ r.valid_to < today /\ r.status # "expired"

\* C5: when the auto-expire sweep of a list or get completes, every
\* non-deleted entity whose validTo is before today has status expired.
C5_SweepExpires ==
    [][ (reader.pc = "idle" /\ reader'.pc = "swept") =>
          LET after == IF reader'.k = "discount" THEN ddb' ELSE pdb'
          IN  \A i \in 1..Len(after.rows) : ~PastDue(after.rows[i])
      ]_vars

C5_Witness ==
    /\ reader.pc = "swept"
    /\ \E i \in 1..Len(Tab(reader.k).rows) :
          /\ Tab(reader.k).rows[i].status = "expired"
          /\ Tab(reader.k).rows[i].isDeleted = 0
          /\ Tab(reader.k).rows[i].valid_to < today

\* C6: the sweep is idempotent (a second sweep, of this request or of
\* another, changes nothing the first has not changed) and a sweep that
\* matches no row changes nothing.
C6_SweepIdempotent ==
    \A k \in Kinds :
        LET once == auto_expire(k, Tab(k), today)
        IN  /\ auto_expire(k, once, today) = once
            /\ (\A i \in 1..Len(Tab(k).rows) : ~PastDue(Tab(k).rows[i])) => once = Tab(k)

C6_Witness ==
    /\ \E i \in 1..Len(ddb.rows) : PastDue(ddb.rows[i])
    /\ auto_expire("discount", ddb, today) # ddb
    /\ \E i \in 1..Len(pdb.rows) : pdb.rows[i].isDeleted = 1 /\ pdb.rows[i].valid_to < today

Updated == last.op = "update" /\ last.status = 200

\* C7 as claimed: after a successful update the association rows of the
\* entity are exactly the selection lists of the update payload.
C7_UpdateReplaces_AsClaimed ==
    Updated =>
        /\ select_products(Tab(last.k), last.id) = last.body.selectedProducts
        /\ select_categories(Tab(last.k), last.id) = last.body.selectedCategories

\* The association rows the handler is to leave: for a discount the list the
\* application type names, for a promotion both lists.
ExpectedProducts(k, b) ==
    IF k = "discount" /\ b.applicationType # "specific_products" THEN {}
    ELSE b.selectedProducts
ExpectedCategories(k, b) ==
    IF k = "discount" /\ b.applicationType # "specific_categories" THEN {}
    ELSE b.selectedCategories

\* C7 amended: after a successful update the association rows of the entity
\* are exactly the payload's selection: for a discount the list its
\* application type names (none for all_products), for a promotion both
\* lists.  No row from before the update is left unless the payload names it.
C7_UpdateReplaces ==
    Updated =>
        /\ select_products(Tab(last.k), last.id) = ExpectedProducts(last.k, last.body)
        /\ select_categories(Tab(last.k), last.id) = ExpectedCategories(last.k, last.body)

C7_Witness ==
    /\ Updated /\ last.k = "discount"
    /\ last.body.selectedProducts = {"p1"}
    /\ select_products(ddb, last.id) = {"p1"}

\* C8: a create whose name equals that of an existing non-deleted entity
\* fails with 409 and leaves the base table and both association tables as
\* they were.
C8_DuplicateNameIs409 ==
    [][ ( /\ last = NoResponse /\ last'.op = "create"
          /\ Authorized(last') /\ last'.status # 400
          /\ \E i \in 1..Len(Tab(last'.k).rows) :
                /\ Tab(last'.k).rows[i].isDeleted = 0
                /\ Tab(last'.k).rows[i].name =
                      (IF last'.k = "discount" THEN last'.req.discountName
                       ELSE last'.req.promotionName) )
        => (last'.status = 409 /\ UNCHANGED <<ddb, pdb>>)
      ]_vars

C8_Witness ==
    /\ last.op = "create" /\ last.status = 409
    /\ last.req.selectedProducts # {}

\* C9 as claimed: no reader observes a state in which only part of a
\* mutating operation's row and association writes are present: what a get
\* returns is the entity as it was stored at one of the get's selects.
C9_ReadIsNotTorn_AsClaimed ==
    (reader.pc = "done" /\ reader.op = "get" /\ reader.status = 200) =>
        reader.body \in reader.seen

\* What the BOGO rules ask of a payload.
BogoWellFormed(p) ==
    /\ Cardinality(p.selectedProducts) \in 1..2
    /\ p.bogoDiscountType # "NULL"
    /\ p.bogoDiscountValue # 0

\* C10: a create or update of a promotion with promotionType = bogo is
\* accepted only with 1 or 2 selected products and both BOGO fields; with 0
\* or more than 2 products or a BOGO field missing it fails with 400.
C10_BogoValidation ==
    ( /\ last.k = "promotion" /\ last.op \in {"create", "update"}
      /\ Authorized(last) /\ last.req.promotionType = "bogo" ) =>
        /\ ~BogoWellFormed(last.req) => (last.status = 400 /\ last.body = NoBody)
        /\ BogoWellFormed(last.req) => last.status # 400

C10_Witness ==
    /\ last.k = "promotion" /\ last.op = "create"
    /\ Authorized(last)
    /\ last.req.promotionType = "bogo"
    /\ Cardinality(last.req.selectedProducts) = 3
    /\ last.status = 400


\* C11: after any sequence of operations every stored promotion with
\* promotionType = bogo has applicationType = specific_products, 1 or 2
\* product association rows and both BOGO discount fields set.
C11_StoredBogoWellFormed ==
    \A i \in 1..Len(pdb.rows) :
        pdb.rows[i].promotion_type = "bogo" =>
            /\ pdb.rows[i].application_type = "specific_products"
            /\ Cardinality(select_products(pdb, i)) \in 1..2
            /\ pdb.rows[i].bogo_discount_type # "NULL"
            /\ pdb.rows[i].bogo_discount_value # 0

C11_Witness ==
    /\ last.k = "promotion" /\ last.op = "update" /\ last.status = 200
    /\ last.req.promotionType = "bogo" /\ last.req.applicationType = "all_products"
    /\ pdb.rows[last.id].promotion_type = "bogo"
    /\ Cardinality(select_products(pdb, last.id)) = 2


\* What the rules for a percentage or fixed promotion ask of a payload.
ValueWellFormed(p) ==
    /\ p.promotionValue # 0
    /\ p.applicationType = "specific_products" => p.selectedProducts # {}
    /\ p.applicationType = "specific_categories" => p.selectedCategories # {}

\* C12: a create or update of a promotion with promotionType percentage or
\* fixed fails with 400 when promotionValue is absent or the selection list
\* its applicationType names is empty; all_products needs no selection, and
\* a payload that meets the rules is not answered 400.
C12_ValueValidation ==
    ( /\ last.k = "promotion" /\ last.op \in {"create", "update"}
      /\ Authorized(last) /\ last.req.promotionType \in {"percentage", "fixed"} ) =>
        /\ ~ValueWellFormed(last.req) => (last.status = 400 /\ last.body = NoBody)
        /\ ValueWellFormed(last.req) => last.status # 400

C12_Witness ==
    /\ last.k = "promotion" /\ last.op = "update"
    /\ Authorized(last)
    /\ last.req.promotionType = "percentage" /\ last.req.promotionValue # 0
    /\ last.req.applicationType = "specific_categories"
    /\ last.req.selectedCategories = {}
    /\ last.status = 400
    /\ select_live(pdb, last.id).id # 0


\* C13: a promotion create or update that fails validation (400) fails
\* before any storage access: get_db_connection() has not been called and
\* no table has changed.
C13_ValidationBeforeStorage ==
    [][ ( /\ last = NoResponse /\ last'.k = "promotion"
          /\ last'.op \in {"create", "update"} /\ last'.status = 400 )
        => (~last'.connected /\ UNCHANGED <<ddb, pdb>>)
      ]_vars

C13_Witness ==
    /\ last.k = "promotion" /\ last.op = "update" /\ last.status = 400
    /\ ~last.connected
    /\ select_live(pdb, last.id).id # 0
    /\ \E i \in 1..Len(pdb.rows) : PastDue(pdb.rows[i])


\* The allow-lists as the claim gives them.
ClaimedAllowList(op) ==
    CASE op \in {"create", "update", "delete"} -> {"admin"}
      [] op \in {"list", "get"} -> {"admin", "manager", "cashier"}
      [] op = "active" -> {"user"}

\* The response resp answers its caller as the allow-list asks: a role that
\* is not on the list gets 403, a role that is on it does not, and only a
\* role on the list gets a success.
GuardedAsClaimed(resp) ==
    resp.who \in Roles =>
        /\ resp.who \notin ClaimedAllowList(resp.op) <=> resp.status = 403
        /\ resp.status \in {200, 201} => resp.who \in ClaimedAllowList(resp.op)

\* C14: every operation succeeds only for a caller whose role is in its
\* allow-list and otherwise fails with 403: create, update and delete
\* require admin; list and get accept admin, manager and cashier; GET
\* /promotions/active accepts user.  A list by an allowed role succeeds.
C14_AllowLists ==
    /\ last.op # "" => GuardedAsClaimed(last)
    /\ reader.pc = "done" =>
          /\ GuardedAsClaimed(reader)
          /\ (reader.op \in {"list", "active"} /\ reader.who \in ClaimedAllowList(reader.op))
                => reader.status = 200

\* A cashier has listed the discounts, of which there is one, and the list
\* holds it.
C14_Witness ==
    /\ reader.pc = "done" /\ reader.op = "list" /\ reader.k = "discount"
    /\ reader.who = "cashier" /\ reader.status = 200
    /\ Len(reader.items) = 1

\* A cashier is refused the create of a discount.
C14_WitnessForbidden ==
    /\ last.op = "create" /\ last.k = "discount" /\ last.who = "cashier"
    /\ last.status = 403


\* The guard is to refuse the caller of resp: the identity service gave no
\* role, or one that is not on the allow-list.
Refused(resp) == resp.who \notin ClaimedAllowList(resp.op)

\* C15: authorization comes first in every handler: a request the guard
\* refuses (403, identity-service error, identity service unavailable) opens
\* no connection, changes no row and runs no auto-expire sweep.
C15_GuardBeforeStorage ==
    [][ /\ (last = NoResponse /\ last'.op # "" /\ Refused(last'))
              => ( /\ last'.status \in {401, 403, 500, 503}
                   /\ ~last'.connected /\ UNCHANGED <<ddb, pdb>> )
        /\ (reader.pc = "idle" /\ reader'.pc # "idle" /\ Refused(reader'))
              => ( /\ reader'.pc = "done" /\ reader'.status \in {401, 403, 500, 503}
                   /\ ~reader'.connected /\ UNCHANGED <<ddb, pdb>> )
      ]_vars

\* A get is refused because the identity service is unreachable, while a
\* row is waiting for the sweep.
C15_Witness ==
    /\ reader.pc = "done" /\ reader.op = "get" /\ reader.who = "unreachable"
    /\ reader.status = 503 /\ ~reader.connected
    /\ \E i \in 1..Len(Tab(reader.k).rows) : PastDue(Tab(reader.k).rows[i])


\* A create, update or delete has succeeded.
Mutated == last.op \in {"create", "update", "delete"} /\ last.status \in {200, 201}

\* C16 as claimed: every successful create, update and delete, of a discount
\* and of a promotion, schedules one audit emission (after its commit: the
\* response that carries the task is built after the commit).
C16_AuditScheduled_AsClaimed == Mutated => Len(last.tasks) = 1


\* C17: a failure of the audit emission (network error, timeout, error
\* status of the ledger) is never propagated: the emitter returns normally
\* and leaves the storage as the mutations committed it.
C17_EmitterSwallows ==
    [][ (last = NoResponse /\ last'.op = "emit")
        => (last'.status = 0 /\ UNCHANGED <<today, ddb, pdb, reader>>)
      ]_vars

C17_Witness ==
    /\ last.op = "emit" /\ last.req.answer = "timeout"
    /\ last.detail = "Blockchain logging failed"
    /\ Len(pdb.rows) > 0


\* Another non-deleted row of the table holds the name already.
NameTaken(k, name, id) ==
    \E i \in 1..Len(Tab(k).rows) :
        i # id /\ Tab(k).rows[i].isDeleted = 0 /\ Tab(k).rows[i].name = name

ReqName(k, p) == IF k = "discount" THEN p.discountName ELSE p.promotionName

\* The entity an update with body p is to leave: the body, with the BOGO
\* application type forced and, for a discount, only the selection list the
\* application type names.
ExpectedEntity(k, id, p) ==
    [ ([id |-> id] @@ p) EXCEPT
        !.applicationType = IF k = "promotion" /\ p.promotionType = "bogo"
                            THEN "specific_products" ELSE @,
        !.selectedProducts = ExpectedProducts(k, p),
        !.selectedCategories = ExpectedCategories(k, p) ]

\* The followed update ends its transaction in this step.
UpdateEnds ==
    reader.op = "update" /\ reader.pc = "selected" /\ reader'.pc = "done"

\* C18 as claimed: when two updates of one entity run concurrently and both
\* succeed, what is stored when the later one commits (base row and both
\* association sets) equals the payload of that update, and an update
\* reports a conflict only on a unique-name collision.
C18_LastWriteWins_AsClaimed ==
    [][ UpdateEnds =>
          LET after == IF reader.k = "discount" THEN ddb' ELSE pdb'
          IN  /\ reader'.status = 200 =>
                    stored_entity(reader.k, after, reader.id)
                        = [id |-> reader.id] @@ reader.req
              /\ reader'.status = 409 =>
                    NameTaken(reader.k, ReqName(reader.k, reader.req), reader.id)
      ]_vars


\* C18 amended: when two updates of one entity run concurrently and both
\* succeed, what is stored when the later one commits is what that update
\* alone stores, with nothing left of the other: its payload, with the
\* application type of a BOGO promotion forced to specific_products and, for
\* a discount, only the selection list its application type names.  An
\* update reports a conflict only on a unique-name collision.
C18_LastWriteWins ==
    [][ UpdateEnds =>
          LET after == IF reader.k = "discount" THEN ddb' ELSE pdb'
          IN  /\ reader'.status = 200 =>
                    stored_entity(reader.k, after, reader.id)
                        = ExpectedEntity(reader.k, reader.id, reader.req)
              /\ reader'.status = 409 =>
                    NameTaken(reader.k, ReqName(reader.k, reader.req), reader.id)
      ]_vars

\* The followed update of a discount has committed; between its SELECT and
\* its UPDATE another update had renamed the discount and given it other
\* selections, of which nothing is left.
C18_Witness ==
    /\ reader.pc = "done" /\ reader.op = "update" /\ reader.status = 200
    /\ reader.k = "discount"
    /\ \E e \in reader.seen :
          /\ e # NoBody
          /\ e.discountName # reader.row.name
          /\ e.discountName # reader.req.discountName
          /\ e.selectedProducts = {"p1", "p2", "p3"}
    /\ reader.req.applicationType = "specific_categories"
    /\ stored_entity("discount", ddb, reader.id)
          = ExpectedEntity("discount", reader.id, reader.req)


\* Association rows of entity i of tables T exist only for the selection
\* its stored application type names.
AssociationsMatchType(T, i) ==
    /\ select_products(T, i) # {} => T.rows[i].application_type = "specific_products"
    /\ select_categories(T, i) # {} => T.rows[i].application_type = "specific_categories"

\* C19 as stated: for every stored entity, discount or promotion, product
\* association rows exist only when applicationType = specific_products and
\* category association rows only when applicationType =
\* specific_categories; an all_products entity has no association rows.
C19_AssociationsMatchType_AsClaimed ==
    /\ \A i \in 1..Len(ddb.rows) : AssociationsMatchType(ddb, i)
    /\ \A i \in 1..Len(pdb.rows) : AssociationsMatchType(pdb, i)


\* The rows of T that are expired and, in T2, no longer are.
Reverted(T, T2) ==
    { i \in 1..Len(T.rows) : T.rows[i].status = "expired" /\ T2.rows[i].status # "expired" }

\* This step is a successful update of entity i of kind k whose payload
\* carries a status other than expired.
ExplicitUpdate(k, i) ==
    /\ last = NoResponse
    /\ last'.op = "update" /\ last'.k = k /\ last'.id = i /\ last'.status = 200
    /\ last'.req.status # "expired"

\* C20: the status of an entity is never automatically reverted from
\* expired: no read, auto-expire sweep, delete or create takes a row from
\* expired to active or inactive; a row leaves expired only in the step of a
\* successful update of that row, and then for the status of its payload.
C20_ExpiredNotReverted ==
    [][ /\ \A i \in Reverted(ddb, ddb') :
              ExplicitUpdate("discount", i) /\ ddb'.rows[i].status = last'.req.status
        /\ \A i \in Reverted(pdb, pdb') :
              ExplicitUpdate("promotion", i) /\ pdb'.rows[i].status = last'.req.status
      ]_vars

\* An expired discount has been deleted on a later day than its last valid
\* one, and is expired still.
C20_Witness ==
    /\ last.op = "delete" /\ last.k = "discount" /\ last.status = 200
    /\ ddb.rows[last.id].status = "expired"
    /\ ddb.rows[last.id].isDeleted = 1
    /\ ddb.rows[last.id].valid_to < today


\* Tables T2 hold every base row of T under its id, and every row deleted
\* in T is deleted in T2.
RowsKept(T, T2) ==
    /\ Len(T2.rows) >= Len(T.rows)
    /\ \A i \in 1..Len(T.rows) :
          /\ T2.rows[i].id = T.rows[i].id
          /\ T.rows[i].isDeleted = 1 => T2.rows[i].isDeleted = 1

\* C21: no operation hard-deletes or un-deletes: no step takes a row out of
\* a base table, and a row's isDeleted flag, once 1, never returns to 0.
C21_NoHardDeleteNoUndelete ==
    [][RowsKept(ddb, ddb') /\ RowsKept(pdb, pdb')]_vars

\* An update has been sent to a soft-deleted promotion while a soft-deleted
\* discount is stored too; both rows are still there, deleted.
C21_Witness ==
    /\ last.op = "update" /\ last.k = "promotion" /\ Authorized(last)
    /\ last.id \in 1..Len(pdb.rows)
    /\ pdb.rows[last.id].isDeleted = 1
    /\ last.req.status = "active"
    /\ \E i \in 1..Len(ddb.rows) : ddb.rows[i].isDeleted = 1


\* C22: the list operation of discounts and of promotions returns exactly
\* the non-deleted entities, each once, ordered by id descending.
C22_ListLiveDescending ==
    (reader.pc = "done" /\ reader.op = "list" /\ reader.status = 200) =>
        /\ { reader.items[j].id : j \in 1..Len(reader.items) }
              = { i \in 1..Len(Tab(reader.k).rows) : Tab(reader.k).rows[i].isDeleted = 0 }
        /\ \A j \in 1..Len(reader.items) :
              \A h \in 1..Len(reader.items) :
                 j < h => reader.items[j].id > reader.items[h].id

\* A list of promotions with two entries has been answered, the newer
\* promotion first.
C22_Witness ==
    /\ reader.pc = "done" /\ reader.op = "list" /\ reader.status = 200
    /\ reader.k = "promotion"
    /\ Len(reader.items) = 2
    /\ reader.items[1].id = 2 /\ reader.items[2].id = 1


\* The finished request resp was answered by the guard as the answer of the
\* identity service to its caller asks.
GuardMapsOutcome(resp) ==
    LET a == auth_me(resp.who)
        success == a.kind = "response" /\ a.status_code \in 200..299
        passed == resp.connected \/ resp.status = 400
    IN  /\ a.kind = "request_error" => (resp.status = 503 /\ ~passed)
        /\ (a.kind = "response" /\ a.status_code >= 400) =>
              /\ resp.status = a.status_code
              /\ resp.detail[2] = a.text
              /\ ~passed
        /\ (success /\ a.userRole \notin allowed_roles(resp.op)) =>
              (resp.status = 403 /\ ~passed)
        /\ (success /\ a.userRole \in allowed_roles(resp.op)) => passed

\* C23: the guard maps each outcome of the identity call to one result: an
\* error status of the identity service is answered with that status and
\* its body, a network failure with 503, a successful response whose role
\* is not in the allow-list with 403, and only a successful response with
\* an allowed role lets the handler go on.
C23_GuardOutcomes ==
    /\ (last.op # "" /\ last.who \in Identities) => GuardMapsOutcome(last)
    /\ (reader.pc = "done" /\ reader.who \in Identities) => GuardMapsOutcome(reader)

\* The identity service has answered the token of an update with a 500 and
\* a body: the update is answered 500 with that body and has not gone on.
C23_Witness ==
    /\ last.op = "update" /\ last.who = "broken"
    /\ last.status = 500 /\ last.detail[2] = "internal error"
    /\ ~last.connected
    /\ Len(ddb.rows) > 0


\* The names under key in the items of a response body.
NamesIn(body, key) == { body.items[j][key] : j \in 1..Len(body.items) }

\* The names the catalog's answer a carries under key.
Fetched(a, key) ==
    { n \in {"c1", "c2", "p1", "p2", "p3"} :
        \E j \in 1..Len(a.data) : key \in DOMAIN a.data[j] /\ a.data[j][key] = n }

\* C24: the catalog resolver answers a network failure of the catalog call
\* with 503 and an error status of the catalog with 502 carrying that status
\* and its body; the available-products and available-categories endpoints
\* surface these errors and otherwise return the fetched names, and they
\* never read or change the entity store.
C24_CatalogOutcomes ==
    [][ (last = NoResponse /\ last'.op \in ChoiceOps) =>
          /\ UNCHANGED <<today, ddb, pdb, reader>>
          /\ ~last'.connected
          /\ Authorized(last') =>
                LET a == last'.req.answer
                    ok == a.kind = "response" /\ a.status_code \in 200..299
                IN  /\ a.kind = "request_error" => last'.status = 503
                    /\ (a.kind = "response" /\ ~ok) =>
                          /\ last'.status = 502
                          /\ last'.detail[2] = a.status_code
                          /\ last'.detail[3] = a.text
                    /\ ok =>
                          /\ last'.status = 200
                          /\ last'.op = "available-products" =>
                                NamesIn(last'.body, "ProductName") = Fetched(a, "ProductName")
                          /\ last'.op = "available-categories" =>
                                NamesIn(last'.body, "name") = Fetched(a, "ProductCategory")
      ]_vars

\* The catalog has answered 404 to the available-categories request of a
\* cashier while a promotion is stored.
C24_Witness ==
    /\ last.op = "available-categories" /\ last.who = "cashier"
    /\ last.status = 502 /\ last.detail[2] = 404 /\ last.detail[3] = "not found"
    /\ Len(pdb.rows) > 0

\* The catalog has answered with its items: the available products are
\* the three names it carries, in order.
C24_WitnessNames ==
    /\ last.op = "available-products" /\ last.status = 200
    /\ last.body.items = <<[ProductName |-> "p1"], [ProductName |-> "p2"], [ProductName |-> "p3"]>>


\* The entity e of a response is past its last valid day and not expired.
StaleInResponse(e) == e.validTo < today /\ e.status # "expired"

\* C25 as claimed: no list or get response contains a non-deleted entity
\* whose validTo is before today with a status other than expired, in every
\* interleaving of the read with concurrent creates and updates.
C25_NoStaleRead_AsClaimed ==
    (reader.pc = "done" /\ reader.status = 200) =>
        /\ reader.op = "get" => ~StaleInResponse(reader.body)
        /\ reader.op = "list" =>
              \A j \in 1..Len(reader.items) : ~StaleInResponse(reader.items[j])


\* C26: if the auto-expire sweep of a read fails, the failure is swallowed:
\* the list or get still performs its select and returns its normal result
\* (the list of the non-deleted entities; the entity, or for a missing id
\* the answer a get gives to a missing id), and the sweep's error is not
\* reported.
C26_SweepFailureSwallowed ==
    (reader.pc = "done" /\ reader.sweep = "failed") =>
        LET T == Tab(reader.k)
        IN  /\ reader.detail # "Error auto-expiring"
            /\ reader.detail # detail_of(StatementError)
            /\ reader.op = "list" =>
                  /\ reader.status = 200
                  /\ { reader.items[j].id : j \in 1..Len(reader.items) }
                        = { i \in 1..Len(T.rows) : T.rows[i].isDeleted = 0 }
            /\ reader.op = "get" =>
                  IF select_live(T, reader.id).id = 0
                  THEN reader.status = except_plain(HTTP404)
                       /\ reader.detail = detail_of(HTTP404)
                  ELSE /\ reader.status = 200
                       /\ reader.body.id = reader.id
                       /\ reader.body.selectedProducts = select_products(T, reader.id)
                       /\ reader.body.selectedCategories = select_categories(T, reader.id)

\* The sweep of a list of discounts has failed in its UPDATE and the list
\* has been answered all the same, with the discount the sweep would have
\* expired.
C26_Witness ==
    /\ reader.pc = "done" /\ reader.sweep = "failed"
    /\ reader.op = "list" /\ reader.k = "discount" /\ reader.status = 200
    /\ Len(reader.items) = 1
    /\ reader.items[1].status = "active" /\ reader.items[1].validTo < today


\* Tables T2 are tables T but for the status of the rows that were past due,
\* which is expired.
OnlyPastDueExpired(T, T2) ==
    /\ T2.products = T.products
    /\ T2.categories = T.categories
    /\ Len(T2.rows) = Len(T.rows)
    /\ \A i \in 1..Len(T.rows) :
          T2.rows[i] = IF PastDue(T.rows[i])
                       THEN [T.rows[i] EXCEPT !.status = "expired"]
                       ELSE T.rows[i]

\* This step has swept the tables of kind k and nothing else.
SweptOnly(k) ==
    IF k = "discount"
    THEN OnlyPastDueExpired(ddb, ddb') /\ pdb' = pdb
    ELSE OnlyPastDueExpired(pdb, pdb') /\ ddb' = ddb

\* C27: the auto-expire sweep (the one of the read that arrives, or the one
\* of another read) changes only the status of the rows it matches:
\* soft-deleted rows, rows whose validTo is today or later, rows already
\* expired, every other field of the matched rows, both association tables
\* and the tables of the other entity are left as they were.
C27_SweepFrame ==
    [][ /\ (reader.pc = "idle" /\ reader'.pc = "swept") => SweptOnly(reader'.k)
        /\ (UNCHANGED <<today, reader, last>> /\ <<ddb, pdb>> # <<ddb', pdb'>>)
              => \E k \in Kinds : SweptOnly(k)
      ]_vars

\* A sweep of the discounts has expired a discount and left it its category
\* row, while a soft-deleted entity past its validTo has kept its status.
C27_Witness ==
    /\ reader.pc = "swept" /\ reader.k = "discount"
    /\ \E i \in 1..Len(ddb.rows) :
          /\ ddb.rows[i].status = "expired" /\ ddb.rows[i].valid_to < today
          /\ select_categories(ddb, i) = {"c1"}
    /\ \E k \in Kinds : \E j \in 1..Len(Tab(k).rows) :
          /\ Tab(k).rows[j].isDeleted = 1 /\ Tab(k).rows[j].valid_to < today
          /\ Tab(k).rows[j].status # "expired"

=============================================================================
